---- MODULE Spec2Model ----
(***************************************************************************)
(* Model of the swaps-service block walker ("get past blocks") and of the  *)
(* swap output scanner.                                                    *)
(*                                                                         *)
(* The walker is an async/whilst loop around an async/auto task graph      *)
(* (getCachedBlock -> getBlock -> {setCachedBlock, blocks}).  Every cache  *)
(* read, Block Source fetch and cache write is a suspension point: one     *)
(* action issues the request up to the suspension, and one action per      *)
(* response runs the callbacks up to the next suspension or completion.    *)
(***************************************************************************)
EXTENDS Integers, Sequences, FiniteSets, TLC

\* ------------------------------------------------------------------ bounds
NumHashes == 11      \* block hashes are 1..NumHashes
MaxCalls == 2        \* walker calls made in one run
MaxExpire == 1       \* cache entries the backend lets expire
MaxEvents == 2       \* events delivered by the two listeners

\* ------------------------------------------------------- program constants
blockExpirationMs == 1000 * 60 * 60 * 3
fetchBlocksCount == 10

\* the absent value of an optional hash ([previous_block_hash], !current)
undefined == 0

Hashes == 1..NumHashes
\* the walker calls whose closures are kept in the state; SeqCalls is the
\* one that is called again and again, one call after the other, the
\* second one runs next to it where calls overlap
WalkCalls == {"w1", "w2"}
SeqCalls == {"w1"}
\* the cache selectors and network names of a scanner; "" is an absent one
CacheTypes == {"", "memory"}
Networks == {"", "testnet"}
\* the err argument of a callback that reports no error
NoErr == <<>>
\* starting hashes of the calls: next to the oldest block, and the newest
\* block, which has a page of ancestors or more
StartHashes == {2, NumHashes}

\* arguments of the walker calls: complete ones, and ones that omit one
\* input or all of them
WalkArgs ==
  [cache : {"memory"}, current : StartHashes, network : {"testnet"}]
    \cup {[cache |-> "", current |-> 2, network |-> "testnet"],
          [cache |-> "memory", current |-> undefined, network |-> "testnet"],
          [cache |-> "memory", current |-> 2, network |-> ""],
          [cache |-> "", current |-> undefined, network |-> ""]}

\* starting hashes of overlapping calls: their walks share blocks 2 and 1
ConcStarts == {2, 3}
ConcArgs ==
  [cache : {"memory"}, current : ConcStarts, network : {"testnet"}]

VARIABLES
  chain,       \* Block Source: hash -> block, unchanging
  cacheStore,  \* TTL cache: <<type, key>> -> [value, ms]
  expired,     \* number of entries expired so far
  populated,   \* hashes whose write was acknowledged, not expired since
  expiredKeys, \* keys of the entries that expired
  calls,       \* number of walker calls made so far
  walk         \* per walker call: closure variables and call position

walkerVars ==
  <<chain, cacheStore, expired, populated, expiredKeys, walk, calls>>

VARIABLES
  scanner,        \* outcome of the construction call
  listeners,      \* listeners instantiated by the construction
  subscriptions,  \* <<listener, event>> handlers registered on listeners
  delivered,      \* listener events delivered so far, in order
  detecting,      \* detectSwaps calls in flight, each with its closure's id
                  \* and numbered by the listener event that made it
  detected,       \* outcome handed to the callback of each finished call
  emitted         \* notifications emitted by the scanner, in order

scannerVars ==
  <<scanner, listeners, subscriptions, delivered, detecting, detected,
    emitted>>

\* ------------------------------------------------------------ Block Source
TransactionIds(h) == [i \in 1..(h % 3) |-> (h * 10) + i]

LinearChain ==
  [h \in Hashes |->
    [previous_block_hash |-> IF h = 1 THEN undefined ELSE h - 1,
     transaction_ids |-> TransactionIds(h)]]

\* the previous-hash links of the oldest block point back into the chain
CyclicChain ==
  [h \in Hashes |->
    [previous_block_hash |-> IF h = 1 THEN 2 ELSE h - 1,
     transaction_ids |-> TransactionIds(h)]]

\* getBlock({network, id}) of ./../chain : the block under id
ChainGetBlock(id) == chain[id]

\* --------------------------------------------------------------- TTL cache
CacheKey(type, key) == <<type, key>>

\* getJsonFromCache({cache, key, type}) : value | absent
HasJsonInCache(type, key) == CacheKey(type, key) \in DOMAIN cacheStore

GetJsonFromCache(type, key) == cacheStore[CacheKey(type, key)].value

\* setJsonInCache({cache, key, ms, type, value})
SetJsonInCache(store, type, key, ms, value) ==
  [k \in (DOMAIN store) \cup {CacheKey(type, key)} |->
    IF k = CacheKey(type, key) THEN [value |-> value, ms |-> ms]
    ELSE store[k]]

\* an entry written by something other than the walker
ForeignEntry == [value |-> [swap |-> "invoice"], ms |-> 1000]

InitCache == [k \in {CacheKey("swap", 1)} |-> ForeignEntry]

\* ------------------------------------------------------------- walker call
IdleCall ==
  [pc |-> "idle", cache |-> "", current |-> undefined, network |-> "",
   cursor |-> undefined, blocks |-> <<>>, req |-> <<>>,
   log |-> <<>>, obtained |-> <<>>, returned |-> <<>>]

\* cbk(err) / cbk(null, {blocks})
Cbk(w, err, res) ==
  [w EXCEPT !.pc = "done", !.req = <<>>,
            !.returned = Append(@, [err |-> err, res |-> res])]

\* getCachedBlock task: getJsonFromCache({cache, key: cursor, type: 'block'})
GetCachedBlockTask(w) ==
  [w EXCEPT !.pc = "getCachedBlock",
            !.req = <<[op |-> "get", type |-> "block", key |-> w.cursor]>>,
            !.log = Append(@, [op |-> "get", type |-> "block",
                               key |-> w.cursor, res |-> "pending",
                               held |-> FALSE])]

\* a loop test that looks at the cursor only
WhilstTestCursorOnly(w) == w.cursor # undefined

\* a loop test that looks at the page size only
WhilstTestNoCursor(w) == Len(w.blocks) < fetchBlocksCount

\* a loop test that admits one block too many
WhilstTestOffByOne(w) ==
  Len(w.blocks) <= fetchBlocksCount /\ w.cursor # undefined

\* asyncWhilst test
WhilstTest(w) == Len(w.blocks) < fetchBlocksCount /\ w.cursor # undefined

\* returnResult({of}, cbk) of ./../async-util : the error alone, or the
\* result of the task named by of
ReturnResult(of, err, results) ==
  IF err # NoErr THEN [err |-> err, res |-> {}]
  ELSE [err |-> NoErr, res |-> {results[of]}]

\* asyncWhilst: next iteration (asyncAuto starts with getCachedBlock) or
\* completion with the last iteration's result, the result {blocks} of
\* the blocks task
WhilstNext(w) ==
  IF WhilstTest(w) THEN GetCachedBlockTask(w)
  ELSE LET last == ReturnResult("blocks", NoErr,
                                [blocks |-> [blocks |-> w.blocks]])
       IN Cbk(w, last.err, last.res)

\* a blocks task that appends the block and leaves the cursor where it was
BlocksTaskStaleCursor(w, getBlock) ==
  [w EXCEPT !.blocks = Append(@, getBlock)]

\* blocks task
BlocksTask(w, getBlock) ==
  [w EXCEPT !.cursor = getBlock.previous_block_hash,
            !.blocks = Append(@, getBlock)]

\* getBlock.is_cached
IsCached(getBlock) ==
  "is_cached" \in DOMAIN getBlock /\ getBlock.is_cached

\* the last log entry gets its outcome
Logged(w, res) == [w EXCEPT !.log[Len(w.log)].res = res]

\* the last log entry, a cache read, notes whether an acknowledged write
\* of its key was still unexpired when the read was answered
Held(w) ==
  [w EXCEPT !.log[Len(w.log)].held = w.log[Len(w.log)].key \in populated]

\* the block an answered cache read or Block Source fetch handed over
Obtained(w, key, value) ==
  [w EXCEPT !.obtained = Append(@, [key |-> key, value |-> value])]

\* a walker that does not check the network before it starts
GetPastBlocksNoNetworkCheck(cache, current, network) ==
  LET w == [IdleCall EXCEPT !.cache = cache, !.current = current,
                            !.network = network]
  IN IF cache = "" THEN Cbk(w, <<400, "ExpectedCacheToCheckAgainst">>, {})
     ELSE IF current = undefined
       THEN Cbk(w, <<400, "ExpectedCurrentBlockHash">>, {})
     ELSE WhilstNext([w EXCEPT !.cursor = current])

\* module.exports = ({cache, current, network}, cbk)
GetPastBlocks(cache, current, network) ==
  LET w == [IdleCall EXCEPT !.cache = cache, !.current = current,
                            !.network = network]
  IN IF cache = "" THEN Cbk(w, <<400, "ExpectedCacheToCheckAgainst">>, {})
     ELSE IF current = undefined
       THEN Cbk(w, <<400, "ExpectedCurrentBlockHash">>, {})
     ELSE IF network = "" THEN Cbk(w, <<400, "ExpectedNetworkName">>, {})
     ELSE WhilstNext([w EXCEPT !.cursor = current])

\* a call is made; the closure of a finished call is dropped
WalkCall(c) ==
  /\ walk[c].pc \in {"idle", "done"}
  /\ calls < MaxCalls
  /\ calls' = calls + 1
  /\ \E args \in WalkArgs :
       walk' = [walk EXCEPT ![c] =
         GetPastBlocks(args.cache, args.current, args.network)]
  /\ UNCHANGED <<chain, cacheStore, expired, populated, expiredKeys,
               scannerVars>>

\* a call is made while another call may be walking
ConcWalkCall(c) ==
  /\ walk[c].pc \in {"idle", "done"}
  /\ calls < MaxCalls
  /\ calls' = calls + 1
  /\ \E args \in ConcArgs :
       walk' = [walk EXCEPT ![c] =
         GetPastBlocks(args.cache, args.current, args.network)]
  /\ UNCHANGED <<chain, cacheStore, expired, populated, expiredKeys,
               scannerVars>>

\* a setCachedBlock task that writes under the hash the cursor moves to
SetCachedBlockTaskUnderPrevious(w, getBlock) ==
  IF IsCached(getBlock) THEN w
  ELSE [w EXCEPT !.pc = "setCachedBlock",
          !.req = <<[op |-> "set", type |-> "block",
                     key |-> getBlock.previous_block_hash,
                     ms |-> blockExpirationMs,
                     value |-> [previous_block_hash |->
                                  getBlock.previous_block_hash,
                                transaction_ids |->
                                  getBlock.transaction_ids]]>>,
          !.log = Append(@, [op |-> "set", type |-> "block",
                             key |-> getBlock.previous_block_hash,
                             res |-> "pending"])]

\* a setCachedBlock task that writes the block back wherever it came from
SetCachedBlockTaskAlways(w, getBlock) ==
  [w EXCEPT !.pc = "setCachedBlock",
     !.req = <<[op |-> "set", type |-> "block", key |-> w.cursor,
                ms |-> blockExpirationMs,
                value |-> [previous_block_hash |->
                             getBlock.previous_block_hash,
                           transaction_ids |->
                             getBlock.transaction_ids]]>>,
     !.log = Append(@, [op |-> "set", type |-> "block",
                        key |-> w.cursor, res |-> "pending"])]

\* a setCachedBlock task that never writes
SetCachedBlockTaskSkipped(w, getBlock) == w

\* setCachedBlock task for the block just obtained
SetCachedBlockTask(w, getBlock) ==
  IF IsCached(getBlock) THEN w
  ELSE [w EXCEPT !.pc = "setCachedBlock",
          !.req = <<[op |-> "set", type |-> "block", key |-> w.cursor,
                     ms |-> blockExpirationMs,
                     value |-> [previous_block_hash |->
                                  getBlock.previous_block_hash,
                                transaction_ids |->
                                  getBlock.transaction_ids]]>>,
          !.log = Append(@, [op |-> "set", type |-> "block",
                             key |-> w.cursor, res |-> "pending"])]

\* an asyncAuto that starts the blocks task before the setCachedBlock task
AutoAfterGetBlockBlocksFirst(w, getBlock) ==
  LET ran == SetCachedBlockTask(BlocksTask(w, getBlock), getBlock)
  IN IF ran.pc = "setCachedBlock" THEN ran ELSE WhilstNext(ran)

\* asyncAuto once getBlock has its result: setCachedBlock and blocks are
\* both ready and are started in that order; the blocks task finishes at
\* once, and the iteration finishes when no cache write is left running
AutoAfterGetBlock(w, getBlock) ==
  LET ran == BlocksTask(SetCachedBlockTask(w, getBlock), getBlock)
  IN IF ran.pc = "setCachedBlock" THEN ran ELSE WhilstNext(ran)

\* a getBlock task that goes to the Block Source whatever the cache said
GetBlockTaskAlwaysFetch(w, hit, getCachedBlock) ==
  [w EXCEPT !.pc = "getBlock",
            !.req = <<[op |-> "fetch", key |-> w.cursor]>>,
            !.log = Append(@, [op |-> "fetch", type |-> "block",
                               key |-> w.cursor, res |-> "pending"])]

\* getBlock task, run with the outcome of getCachedBlock
GetBlockTask(w, hit, getCachedBlock) ==
  IF hit
  THEN AutoAfterGetBlock(w,
         [is_cached |-> TRUE,
          previous_block_hash |-> getCachedBlock.previous_block_hash,
          transaction_ids |-> getCachedBlock.transaction_ids])
  ELSE [w EXCEPT !.pc = "getBlock",
                 !.req = <<[op |-> "fetch", key |-> w.cursor]>>,
                 !.log = Append(@, [op |-> "fetch", type |-> "block",
                                    key |-> w.cursor, res |-> "pending"])]

\* the cache read responds
CacheGetOk(c) ==
  /\ walk[c].pc = "getCachedBlock"
  /\ LET w == walk[c]
         r == w.req[1]
         hit == HasJsonInCache(r.type, r.key)
     IN walk' = [walk EXCEPT ![c] =
          IF hit
          THEN GetBlockTask(
                 Obtained(Held(Logged(w, "hit")), r.key,
                          GetJsonFromCache(r.type, r.key)),
                 TRUE, GetJsonFromCache(r.type, r.key))
          ELSE GetBlockTask(Held(Logged(w, "miss")), FALSE, <<>>)]
  /\ UNCHANGED <<chain, cacheStore, expired, populated, expiredKeys, calls,
               scannerVars>>

\* the Block Source responds with the block
BlockSourceOk(c) ==
  /\ walk[c].pc = "getBlock"
  /\ LET w == walk[c]
         r == w.req[1]
         getBlock == ChainGetBlock(r.key)
     IN walk' = [walk EXCEPT ![c] =
          AutoAfterGetBlock(Obtained(Logged(w, "ok"), r.key, getBlock),
                            getBlock)]
  /\ UNCHANGED <<chain, cacheStore, expired, populated, expiredKeys, calls,
               scannerVars>>

\* the cache write is stored and acknowledged
CacheSetOk(c) ==
  /\ walk[c].pc = "setCachedBlock"
  /\ LET w == walk[c]
         r == w.req[1]
     IN /\ cacheStore' =
             SetJsonInCache(cacheStore, r.type, r.key, r.ms, r.value)
        /\ populated' = populated \cup {r.key}
        /\ walk' = [walk EXCEPT ![c] = WhilstNext(Logged(w, "ok"))]
  /\ UNCHANGED <<chain, expired, expiredKeys, calls, scannerVars>>

IoErrors ==
  [getCachedBlock |-> <<503, "GetJsonFromCacheErr">>,
   getBlock |-> <<503, "GetBlockErr">>,
   setCachedBlock |-> <<503, "SetJsonInCacheErr">>]

\* a failure handling that swallows a failed cache write and walks on
IoFailsWriteSwallowed(c) ==
  /\ walk[c].pc \in DOMAIN IoErrors
  /\ walk' = [walk EXCEPT ![c] =
       IF walk[c].pc = "setCachedBlock"
       THEN WhilstNext(Logged(walk[c], "err"))
       ELSE Cbk(Logged(walk[c], "err"), IoErrors[walk[c].pc], {})]
  /\ UNCHANGED <<chain, cacheStore, expired, populated, expiredKeys, calls,
               scannerVars>>

\* a cache read, Block Source fetch or cache write fails: asyncAuto stops
\* and hands the error through returnResult to asyncWhilst's callback
IoFails(c) ==
  /\ walk[c].pc \in DOMAIN IoErrors
  /\ LET failed == ReturnResult("blocks", IoErrors[walk[c].pc], <<>>)
     IN walk' = [walk EXCEPT ![c] =
          Cbk(Logged(walk[c], "err"), failed.err, failed.res)]
  /\ UNCHANGED <<chain, cacheStore, expired, populated, expiredKeys, calls,
               scannerVars>>

\* the cache backend expires an entry
Expire ==
  /\ expired < MaxExpire
  /\ \E k \in DOMAIN cacheStore :
       /\ cacheStore' = [j \in (DOMAIN cacheStore) \ {k} |-> cacheStore[j]]
       /\ populated' = IF k[1] = "block" THEN populated \ {k[2]} ELSE populated
       /\ expiredKeys' = expiredKeys \cup {k}
  /\ expired' = expired + 1
  /\ UNCHANGED <<chain, walk, calls, scannerVars>>

WalkerInit ==
  /\ chain \in {LinearChain, CyclicChain}
  /\ cacheStore = InitCache
  /\ expired = 0
  /\ populated = {}
  /\ expiredKeys = {}
  /\ calls = 0
  /\ walk = [c \in WalkCalls |-> IdleCall]

WalkerNext ==
  \/ \E c \in SeqCalls : WalkCall(c)
  \/ \E c \in SeqCalls : CacheGetOk(c)
  \/ \E c \in SeqCalls : BlockSourceOk(c)
  \/ \E c \in SeqCalls : CacheSetOk(c)
  \/ \E c \in SeqCalls : IoFails(c)
  \/ Expire

\* calls that overlap: the operations of both are answered in any order
ConcWalkerNext ==
  \/ \E c \in WalkCalls : ConcWalkCall(c)
  \/ \E c \in WalkCalls : CacheGetOk(c)
  \/ \E c \in WalkCalls : BlockSourceOk(c)
  \/ \E c \in WalkCalls : CacheSetOk(c)
  \/ \E c \in WalkCalls : IoFails(c)
  \/ Expire


\* ================================================================ scanner

TxIds == {"tx1", "tx2"}
ListenerKinds == {"block", "mempool"}

\* swap records of the detector; every record carries every field
Swap(type, n) ==
  [type |-> type, index |-> n, invoice |-> <<"lnbc", n>>,
   outpoint |-> <<"outpoint", n>>, output |-> <<"0014", n>>,
   preimage |-> <<"preimage", n>>, script |-> <<"76a9", n>>,
   tokens |-> 5000 + n, vout |-> n - 1]

\* results the detector hands back: none, several funding outputs, and
\* unrecognized types among valid records
DetectorResults ==
  { <<>>,
    <<Swap("funding", 1), Swap("funding", 2)>>,
    <<Swap("unknown", 1), Swap("claim", 2)>>,
    <<Swap("claim", 1), Swap("", 2), Swap("refund", 3)>> }

DetectSwapsErr == <<503, "FailedToDetectSwaps">>
\* the error each listener raises
ListenerErrors ==
  [block |-> <<503, "BlockListenerErr">>,
   mempool |-> <<503, "MempoolListenerErr">>]

\* scanner.emit(event, payload); by is the detectSwaps call (numbered by
\* the listener event that made it) and the position of the record the
\* notification was emitted for (call 0: a forwarded listener error, with
\* the number of the listener event in place of the record; record 0: a
\* detector failure)
Emit(event, payload, call, rec) ==
  [event |-> event, payload |-> payload, by |-> <<call, rec>>]

\* the body of detected.swaps.forEach: the notifications for one record
SwapNotifications(swap, id, network, call, rec) ==
  IF swap.type = "claim"
  THEN <<Emit(swap.type,
              [id |-> id, network |-> network, index |-> swap.index,
               outpoint |-> swap.outpoint, preimage |-> swap.preimage,
               script |-> swap.script, type |-> swap.type], call, rec)>>
  ELSE IF swap.type = "funding"
  THEN <<Emit(swap.type,
              [id |-> id, network |-> network, index |-> swap.index,
               invoice |-> swap.invoice, output |-> swap.output,
               script |-> swap.script, tokens |-> swap.tokens,
               type |-> swap.type, vout |-> swap.vout], call, rec)>>
  ELSE IF swap.type = "refund"
  THEN <<Emit(swap.type,
              [id |-> id, network |-> network, index |-> swap.index,
               outpoint |-> swap.outpoint, script |-> swap.script,
               type |-> swap.type], call, rec)>>
  ELSE <<Emit("error", <<500, "UnknownSwapType">>, call, rec)>>

\* a loop over the records that gives up at the first unrecognized type
RECURSIVE ForEachSwapAbortsOnUnknown(_, _, _, _, _)
ForEachSwapAbortsOnUnknown(swaps, rec, id, network, call) ==
  IF rec > Len(swaps) THEN <<>>
  ELSE IF swaps[rec].type \notin {"claim", "funding", "refund"}
  THEN SwapNotifications(swaps[rec], id, network, call, rec)
  ELSE SwapNotifications(swaps[rec], id, network, call, rec)
         \o ForEachSwapAbortsOnUnknown(swaps, rec + 1, id, network, call)

\* a loop that notifies the records from the last one to the first
RECURSIVE ForEachSwapReversed(_, _, _, _, _)
ForEachSwapReversed(swaps, rec, id, network, call) ==
  IF rec > Len(swaps) THEN <<>>
  ELSE ForEachSwapReversed(swaps, rec + 1, id, network, call)
         \o SwapNotifications(swaps[rec], id, network, call, rec)

\* detected.swaps.forEach(swap => ...), from record number rec on
RECURSIVE ForEachSwap(_, _, _, _, _)
ForEachSwap(swaps, rec, id, network, call) ==
  IF rec > Len(swaps) THEN <<>>
  ELSE SwapNotifications(swaps[rec], id, network, call, rec)
         \o ForEachSwap(swaps, rec + 1, id, network, call)

\* a callback that reads the transaction id of the latest call in flight
\* instead of the id of its own closure
DetectSwapsCbkSharedId(d, err, res) ==
  LET latest == CHOOSE x \in detecting : \A y \in detecting : y.call <= x.call
  IN IF err # NoErr THEN <<Emit("error", err, d.call, 0)>>
     ELSE ForEachSwap(res.swaps, 1, latest.id, scanner.network, d.call)

\* the callback of detectSwaps: (err, detected) => ...
DetectSwapsCbk(d, err, res) ==
  IF err # NoErr THEN <<Emit("error", err, d.call, 0)>>
  ELSE ForEachSwap(res.swaps, 1, d.id, scanner.network, d.call)

\* a construction that sets the listeners up without checking the network
NewScannerNoNetworkCheck(cache, network) ==
  IF cache = ""
  THEN [state |-> [status |-> "threw",
                   error |-> "ExpectedCacheTypeForScanCaching",
                   cache |-> cache, network |-> network],
        listeners |-> {}, subscriptions |-> {}]
  ELSE [state |-> [status |-> "scanning", error |-> "",
                   cache |-> cache, network |-> network],
        listeners |-> {[kind |-> "block", cache |-> cache,
                        network |-> network],
                       [kind |-> "mempool", cache |-> "",
                        network |-> network]},
        subscriptions |-> ListenerKinds \X {"error", "transaction"}]

\* module.exports = ({cache, network}) => scanner
NewScanner(cache, network) ==
  IF cache = ""
  THEN [state |-> [status |-> "threw",
                   error |-> "ExpectedCacheTypeForScanCaching",
                   cache |-> cache, network |-> network],
        listeners |-> {}, subscriptions |-> {}]
  ELSE IF network = ""
  THEN [state |-> [status |-> "threw", error |-> "ExpectedNetworkName",
                   cache |-> cache, network |-> network],
        listeners |-> {}, subscriptions |-> {}]
  ELSE [state |-> [status |-> "scanning", error |-> "",
                   cache |-> cache, network |-> network],
        listeners |-> {[kind |-> "block", cache |-> cache,
                        network |-> network],
                       [kind |-> "mempool", cache |-> "",
                        network |-> network]},
        subscriptions |-> ListenerKinds \X {"error", "transaction"}]

Construct ==
  /\ scanner.status = "none"
  /\ \E cache \in CacheTypes, network \in Networks :
       LET new == NewScanner(cache, network)
       IN /\ scanner' = new.state
          /\ listeners' = new.listeners
          /\ subscriptions' = new.subscriptions
  /\ UNCHANGED <<delivered, detecting, detected, emitted, walkerVars>>

\* a scanner that stops listening once a listener has raised an error
ListenerErrorStopsScanning(kind) ==
  /\ Len(delivered) < MaxEvents
  /\ \E l \in listeners : l.kind = kind
  /\ <<kind, "error">> \in subscriptions
  /\ LET err == ListenerErrors[kind]
     IN /\ emitted' = Append(emitted,
             Emit("error", err, 0, Len(delivered) + 1))
        /\ delivered' = Append(delivered,
             [from |-> kind, event |-> "error", arg |-> err])
  /\ subscriptions' = {}
  /\ UNCHANGED <<scanner, listeners, detecting, detected, walkerVars>>

\* a listener emits 'error': err => scanner.emit('error', err)
ListenerError(kind) ==
  /\ Len(delivered) < MaxEvents
  /\ \E l \in listeners : l.kind = kind
  /\ <<kind, "error">> \in subscriptions
  /\ LET err == ListenerErrors[kind]
     IN /\ emitted' = Append(emitted,
             Emit("error", err, 0, Len(delivered) + 1))
        /\ delivered' = Append(delivered,
             [from |-> kind, event |-> "error", arg |-> err])
  /\ UNCHANGED <<scanner, listeners, subscriptions, detecting, detected, walkerVars>>

\* a scanner that remembers the ids it has seen and skips a repeated one
ListenerTransactionDeduplicates(kind) ==
  /\ Len(delivered) < MaxEvents
  /\ \E l \in listeners : l.kind = kind
  /\ <<kind, "transaction">> \in subscriptions
  /\ \E id \in TxIds :
       /\ detecting' =
            IF \E n \in 1..Len(delivered) :
                 delivered[n].event = "transaction" /\ delivered[n].arg = id
            THEN detecting
            ELSE detecting \cup
                   {[call |-> Len(delivered) + 1, from |-> kind, id |-> id,
                     cache |-> scanner.cache, network |-> scanner.network]}
       /\ delivered' = Append(delivered,
            [from |-> kind, event |-> "transaction", arg |-> id])
  /\ UNCHANGED <<scanner, listeners, subscriptions, detected, emitted, walkerVars>>

\* a listener emits 'transaction': detectSwaps({cache, id, network}, cbk)
ListenerTransaction(kind) ==
  /\ Len(delivered) < MaxEvents
  /\ \E l \in listeners : l.kind = kind
  /\ <<kind, "transaction">> \in subscriptions
  /\ \E id \in TxIds :
       /\ detecting' = detecting \cup
            {[call |-> Len(delivered) + 1, from |-> kind, id |-> id,
              cache |-> scanner.cache, network |-> scanner.network]}
       /\ delivered' = Append(delivered,
            [from |-> kind, event |-> "transaction", arg |-> id])
  /\ UNCHANGED <<scanner, listeners, subscriptions, detected, emitted, walkerVars>>

\* the detector answers a call in flight with its records
DetectSwapsOk ==
  \E d \in detecting, res \in DetectorResults :
    /\ detecting' = detecting \ {d}
    /\ detected' = detected \cup
         {[call |-> d.call, id |-> d.id, err |-> NoErr, swaps |-> res]}
    /\ emitted' = emitted \o DetectSwapsCbk(d, NoErr, [swaps |-> res])
    /\ UNCHANGED <<scanner, listeners, subscriptions, delivered, walkerVars>>

\* a detector failure that also abandons every other call in flight
DetectSwapsFailsDropsOthers ==
  \E d \in detecting :
    /\ detecting' = {}
    /\ detected' = detected \cup
         {[call |-> d.call, id |-> d.id, err |-> DetectSwapsErr,
           swaps |-> <<>>]}
    /\ emitted' = emitted \o DetectSwapsCbk(d, DetectSwapsErr, [swaps |-> <<>>])
    /\ UNCHANGED <<scanner, listeners, subscriptions, delivered, walkerVars>>

\* the detector fails a call in flight
DetectSwapsFails ==
  \E d \in detecting :
    /\ detecting' = detecting \ {d}
    /\ detected' = detected \cup
         {[call |-> d.call, id |-> d.id, err |-> DetectSwapsErr,
           swaps |-> <<>>]}
    /\ emitted' = emitted \o DetectSwapsCbk(d, DetectSwapsErr, [swaps |-> <<>>])
    /\ UNCHANGED <<scanner, listeners, subscriptions, delivered, walkerVars>>

ScannerInit ==
  /\ scanner = [status |-> "none", error |-> "", cache |-> "", network |-> ""]
  /\ listeners = {}
  /\ subscriptions = {}
  /\ delivered = <<>>
  /\ detecting = {}
  /\ detected = {}
  /\ emitted = <<>>

ScannerNext ==
  \/ Construct
  \/ \E kind \in ListenerKinds : ListenerError(kind)
  \/ \E kind \in ListenerKinds : ListenerTransaction(kind)
  \/ DetectSwapsOk
  \/ DetectSwapsFails

\* ========================================================= specifications
vars == <<walkerVars, scannerVars>>

\* walker calls against the shared cache; no scanner is constructed
Init == WalkerInit /\ ScannerInit
Next == WalkerNext
Spec == Init /\ [][Next]_vars

\* some operation in flight of call c is answered, with its result or
\* with a failure
Respond(c) ==
  CacheGetOk(c) \/ BlockSourceOk(c) \/ CacheSetOk(c) \/ IoFails(c)

\* the walker calls, on either chain and with a cache that keeps what it
\* holds, where every cache and Block Source operation eventually responds
LiveInit == Init
LiveNext ==
  \/ \E c \in SeqCalls : WalkCall(c)
  \/ \E c \in SeqCalls : Respond(c)
LiveSpec ==
  LiveInit /\ [][LiveNext]_vars /\ \A c \in SeqCalls : WF_vars(Respond(c))

\* walker calls that run at the same time against the shared cache, from
\* hashes next to the oldest block
ConcInit == WalkerInit /\ ScannerInit /\ chain = LinearChain
ConcNext == ConcWalkerNext
ConcSpec == ConcInit /\ [][ConcNext]_vars

\* one scanner and its two listeners; no walker call is made
ScanInit == ScannerInit /\ WalkerInit /\ chain = LinearChain
ScanNext == ScannerNext
ScanSpec == ScanInit /\ [][ScanNext]_vars


\* ============================================================= properties
\* what a finished call handed to its callback
Succeeded(w) ==
  w.pc = "done" /\ Len(w.returned) = 1 /\ w.returned[1].err = NoErr

\* the block sequence of a successful call
ResultOf(w) == (CHOOSE r \in w.returned[1].res : TRUE).blocks

SameBlock(a, b) ==
  /\ a.previous_block_hash = b.previous_block_hash
  /\ a.transaction_ids = b.transaction_ids

IsGet(e) == e.op = "get"
IsFetch(e) == e.op = "fetch"
Gets(w) == SelectSeq(w.log, IsGet)
Fetches(w) == SelectSeq(w.log, IsFetch)

\* C1: in every successful walk the first block of the result is the block
\* obtained under the starting hash, every block of the result is the one
\* the cache read or Block Source fetch of its iteration handed over, and
\* the previous_block_hash of each block is the key of the cache lookup (and
\* of the read or fetch) that produced the next block.
C1_Chaining ==
  \A c \in WalkCalls :
    LET w == walk[c] IN
    Succeeded(w) =>
      LET result == ResultOf(w) IN
      /\ Len(result) >= 1
      /\ Len(w.obtained) = Len(result)
      /\ Len(Gets(w)) = Len(result)
      /\ w.obtained[1].key = w.current
      /\ Gets(w)[1].key = w.current
      /\ \A i \in 1..Len(result) : SameBlock(result[i], w.obtained[i].value)
      /\ \A i \in 1..(Len(result) - 1) :
           /\ result[i].previous_block_hash = w.obtained[i + 1].key
           /\ result[i].previous_block_hash = Gets(w)[i + 1].key

\* a successful walk of several blocks, some read from the cache and some
\* fetched from the Block Source
C1_Witness ==
  \E c \in WalkCalls :
    /\ Succeeded(walk[c])
    /\ Len(ResultOf(walk[c])) >= 3
    /\ \E i, j \in 1..Len(ResultOf(walk[c])) :
         /\ i < j
         /\ IsCached(ResultOf(walk[c])[j])
         /\ ~IsCached(ResultOf(walk[c])[i])

\* the number of ancestors of hash h in the Block Source, counted up to n
RECURSIVE AncestorsUpTo(_, _)
AncestorsUpTo(h, n) ==
  IF n = 0 \/ chain[h].previous_block_hash = undefined THEN 0
  ELSE 1 + AncestorsUpTo(chain[h].previous_block_hash, n - 1)

NoOpFailed(w) == \A i \in 1..Len(w.log) : w.log[i].res # "err"

\* C2: a walk from a starting hash with at least 10 ancestors in which no
\* cache or Block Source operation fails returns exactly 10 blocks, and no
\* walk ever holds or returns more than 10 blocks.
C2_PaginationBound ==
  \A c \in WalkCalls :
    LET w == walk[c] IN
    /\ Len(w.blocks) <= 10
    /\ \A i \in 1..Len(w.returned) :
         \A r \in w.returned[i].res : Len(r.blocks) <= 10
    /\ ( /\ w.pc = "done"
         /\ w.current # undefined
         /\ w.log # <<>>
         /\ NoOpFailed(w)
         /\ AncestorsUpTo(w.current, 10) = 10 )
       => /\ Succeeded(w)
          /\ Len(ResultOf(w)) = 10

\* a walk down the linear chain from a hash with at least 10 ancestors has
\* returned its page
C2_Witness ==
  \E c \in WalkCalls :
    /\ chain = LinearChain
    /\ Succeeded(walk[c])
    /\ AncestorsUpTo(walk[c].current, 10) = 10
    /\ Len(ResultOf(walk[c])) = 10
    /\ walk[c].cursor # undefined
\* the position in the log of the k-th cache lookup of a call
RECURSIVE GetPosition(_, _, _)
GetPosition(log, k, from) ==
  IF log[from].op = "get"
  THEN (IF k = 1 THEN from ELSE GetPosition(log, k - 1, from + 1))
  ELSE GetPosition(log, k, from + 1)

\* the k-th block of the walk of w ends the chain before the page is full
EndsAt(w, k) ==
  /\ k \in 1..Len(w.blocks)
  /\ k < 10
  /\ w.blocks[k].previous_block_hash = undefined

\* after the k-th block nothing was issued but the cache write of that
\* block (when it was fetched): no further lookup and no further fetch
NothingIssuedAfter(w, k) ==
  /\ Len(w.blocks) = k
  /\ Len(Gets(w)) = k
  /\ LET p == GetPosition(w.log, k, 1) IN
       IF IsCached(w.blocks[k]) THEN Len(w.log) = p
       ELSE /\ Len(w.log) = p + 2
            /\ w.log[p + 1].op = "fetch"
            /\ w.log[p + 2].op = "set"

\* C3 as stated: if the k-th block of the walk (k < 10) has an absent
\* previous hash, the walker returns exactly k blocks and issues no further
\* cache lookup and no further Block Source fetch after that block.
C3_AsStated ==
  \A c \in WalkCalls : \A k \in 1..Len(walk[c].blocks) :
    LET w == walk[c] IN
    EndsAt(w, k) =>
      /\ NothingIssuedAfter(w, k)
      /\ w.pc = "done" => (Succeeded(w) /\ Len(ResultOf(w)) = k)

\* C3 (amended): if the k-th block of the walk (k < 10) has an absent
\* previous hash, the walker issues no further cache lookup and no further
\* Block Source fetch after that block, and it returns exactly k blocks
\* unless the cache write of that k-th block fails, in which case the call
\* completes with that failure.
C3_EarlyTermination ==
  \A c \in WalkCalls : \A k \in 1..Len(walk[c].blocks) :
    LET w == walk[c] IN
    EndsAt(w, k) =>
      /\ NothingIssuedAfter(w, k)
      /\ w.pc \in {"setCachedBlock", "done"}
      /\ (w.pc = "done" /\ NoOpFailed(w)) =>
           (Succeeded(w) /\ Len(ResultOf(w)) = k)
      /\ (w.pc = "done" /\ ~NoOpFailed(w)) =>
           /\ w.log[Len(w.log)] =
                [op |-> "set", type |-> "block", key |-> w.obtained[k].key,
                 res |-> "err"]
           /\ w.returned = <<[err |-> IoErrors.setCachedBlock, res |-> {}]>>

\* a walk has returned fewer blocks than a page because its last block,
\* fetched from the Block Source, has no previous hash
C3_Witness ==
  \E c \in WalkCalls :
    LET w == walk[c] IN
    /\ Succeeded(w)
    /\ Len(ResultOf(w)) = 2
    /\ EndsAt(w, 2)
    /\ ~IsCached(w.blocks[2])
\* C4: a cache lookup under type "block" that returns a value is followed
\* in its iteration by no Block Source fetch (the next operation, if any,
\* is the lookup of the next iteration), and every Block Source fetch is
\* for the hash whose lookup, immediately before it, returned absent.
C4_CacheFirst ==
  \A c \in WalkCalls : \A i \in 1..Len(walk[c].log) :
    LET log == walk[c].log IN
    /\ (log[i].op = "get" /\ log[i].res = "hit") =>
         /\ log[i].type = "block"
         /\ i < Len(log) => log[i + 1].op = "get"
    /\ log[i].op = "fetch" =>
         /\ i > 1
         /\ log[i - 1].op = "get"
         /\ log[i - 1].type = "block"
         /\ log[i - 1].res = "miss"
         /\ log[i - 1].key = log[i].key

\* one walk has both read a block from the cache and, for another hash,
\* missed and gone to the Block Source
C4_Witness ==
  \E c \in WalkCalls : \E i, j \in 1..Len(walk[c].log) :
    LET log == walk[c].log IN
    /\ log[i].op = "get" /\ log[i].res = "hit"
    /\ log[j].op = "fetch" /\ log[j].res = "ok"
    /\ log[i].key # log[j].key

\* the cache entry a walker writes for the block under hash h
BlockEntry(h) ==
  [value |-> [previous_block_hash |-> chain[h].previous_block_hash,
              transaction_ids |-> chain[h].transaction_ids],
   ms |-> 3 * 60 * 60 * 1000]

HoldsBlock(h) ==
  /\ <<"block", h>> \in DOMAIN cacheStore
  /\ cacheStore[<<"block", h>>] = BlockEntry(h)

ValidationFailure(w) ==
  IF w.cache = "" THEN <<400, "ExpectedCacheToCheckAgainst">>
  ELSE IF w.current = undefined THEN <<400, "ExpectedCurrentBlockHash">>
  ELSE <<400, "ExpectedNetworkName">>

\* C6: a call that omits the cache selector, the starting hash or the
\* network completes with a failure of code 400 whose message names the
\* missing input (three different messages), and has issued no cache
\* read, no cache write and no Block Source fetch.
C6_InputValidation ==
  \A c \in WalkCalls :
    LET w == walk[c] IN
    (w.pc # "idle" /\
      (w.cache = "" \/ w.current = undefined \/ w.network = "")) =>
        /\ w.pc = "done"
        /\ w.returned = <<[err |-> ValidationFailure(w), res |-> {}]>>
        /\ w.returned[1].err[1] = 400
        /\ w.log = <<>>
        /\ w.req = <<>>
        /\ w.blocks = <<>>

\* a call with a cache selector and a starting hash but no network failed
C6_Witness ==
  \E c \in WalkCalls :
    /\ walk[c].pc = "done"
    /\ walk[c].cache # "" /\ walk[c].current # undefined
    /\ walk[c].network = ""
    /\ walk[c].returned[1].err = <<400, "ExpectedNetworkName">>

\* the failure a cache or Block Source operation raises
FailureOf(op) ==
  IF op = "get" THEN <<503, "GetJsonFromCacheErr">>
  ELSE IF op = "fetch" THEN <<503, "GetBlockErr">>
  ELSE <<503, "SetJsonInCacheErr">>

\* C7: when a cache read, a Block Source fetch or a cache write fails, it
\* is the last operation the call issues, and the call completes once,
\* with that failure and with no blocks, whatever it had collected.
C7_FailureIsFatal ==
  \A c \in WalkCalls : \A i \in 1..Len(walk[c].log) :
    LET w == walk[c] IN
    w.log[i].res = "err" =>
      /\ i = Len(w.log)
      /\ w.pc = "done"
      /\ w.req = <<>>
      /\ w.returned = <<[err |-> FailureOf(w.log[i].op), res |-> {}]>>

\* a cache write failed after earlier iterations had collected blocks
C7_Witness ==
  \E c \in WalkCalls :
    LET w == walk[c] IN
    /\ w.pc = "done"
    /\ Len(w.blocks) >= 3
    /\ w.log[Len(w.log)].op = "set"
    /\ w.log[Len(w.log)].res = "err"
    /\ w.returned[1].res = {}
\* C8: a construction without cache selector or without network name
\* throws at once, and then no listener exists, nothing is subscribed, no
\* listener event is ever handled and no notification is ever emitted.
C8_ConstructionFails ==
  (scanner.status # "none" /\ (scanner.cache = "" \/ scanner.network = ""))
    => /\ scanner.status = "threw"
       /\ scanner.error =
            (IF scanner.cache = "" THEN "ExpectedCacheTypeForScanCaching"
             ELSE "ExpectedNetworkName")
       /\ listeners = {}
       /\ subscriptions = {}
       /\ delivered = <<>>
       /\ detecting = {}
       /\ emitted = <<>>

\* a construction with a cache selector and no network name has thrown
C8_Witness ==
  /\ scanner.status = "threw"
  /\ scanner.cache # ""
  /\ scanner.network = ""

KnownTypes == {"claim", "funding", "refund"}

\* the positions in the notification stream of the notifications emitted
\* for record rec of the result of call
EmittedFor(call, rec) ==
  {n \in 1..Len(emitted) : emitted[n].by = <<call, rec>>}

FundingFields ==
  {"id", "network", "index", "invoice", "output", "script", "tokens",
   "type", "vout"}

\* C9: when the detector succeeds, every record tagged claim, funding or
\* refund has exactly one notification, of the record's kind and not an
\* error; its id is the transaction id of the listener event that made
\* that detector call, its network is the scanner's, and every other field
\* is the record's own (funding has the nine documented fields); a result
\* without records has no notification.
C9_DispatchCorrectness ==
  \A d \in detected :
    d.err = NoErr =>
      /\ d.swaps = <<>> =>
           \A n \in 1..Len(emitted) : emitted[n].by[1] # d.call
      /\ \A rec \in 1..Len(d.swaps) :
           LET swap == d.swaps[rec] IN
           swap.type \in KnownTypes =>
             /\ Cardinality(EmittedFor(d.call, rec)) = 1
             /\ \A n \in EmittedFor(d.call, rec) :
                  LET payload == emitted[n].payload IN
                  /\ emitted[n].event = swap.type
                  /\ emitted[n].event # "error"
                  /\ delivered[d.call].event = "transaction"
                  /\ payload.id = delivered[d.call].arg
                  /\ payload.network = scanner.network
                  /\ \A f \in (DOMAIN payload) \ {"id", "network"} :
                       payload[f] = swap[f]
                  /\ swap.type = "funding" =>
                       /\ DOMAIN payload = FundingFields
                       /\ Cardinality(DOMAIN payload) = 9

\* a funding record was notified for one transaction while the detector
\* call of an earlier event, for another transaction, was still in flight
C9_Witness ==
  \E d \in detected, e \in detecting :
    /\ d.call > e.call
    /\ d.id # e.id
    /\ d.err = NoErr
    /\ \E rec \in 1..Len(d.swaps) :
         /\ d.swaps[rec].type = "funding"
         /\ \E n \in EmittedFor(d.call, rec) : emitted[n].event = "funding"

\* C10: in a detector result that mixes records of unrecognized type with
\* valid records, each unrecognized record has exactly one notification,
\* the error [500, 'UnknownSwapType'], and each valid record, before or
\* after an unrecognized one, has exactly one notification of its type.
C10_UnknownTypeResilience ==
  \A d \in detected :
    (d.err = NoErr /\
      \E bad \in 1..Len(d.swaps) : d.swaps[bad].type \notin KnownTypes) =>
        \A rec \in 1..Len(d.swaps) :
          /\ Cardinality(EmittedFor(d.call, rec)) = 1
          /\ \A n \in EmittedFor(d.call, rec) :
               IF d.swaps[rec].type \in KnownTypes
               THEN emitted[n].event = d.swaps[rec].type
               ELSE /\ emitted[n].event = "error"
                    /\ emitted[n].payload = <<500, "UnknownSwapType">>

\* a result with a valid record before and another after an unrecognized
\* record has been dispatched
C10_Witness ==
  \E d \in detected :
    /\ Len(d.swaps) = 3
    /\ d.swaps[1].type = "claim"
    /\ d.swaps[2].type \notin KnownTypes
    /\ d.swaps[3].type = "refund"
    /\ \E n \in EmittedFor(d.call, 2) : emitted[n].event = "error"
    /\ \E n \in EmittedFor(d.call, 3) : emitted[n].event = "refund"
\* the detector calls, in flight or answered, made for listener event n
CallsFor(n) == {d \in detecting \cup detected : d.call = n}

AllSubscriptions == ListenerKinds \X {"error", "transaction"}

\* C11: every error event of either listener has exactly one scanner error
\* notification, with the payload of the event, and no other forwarded
\* error exists; the scanner stays subscribed to both events of both
\* listeners, and every transaction event delivered after an error event
\* has its one detector call with the id of the event, whose successful
\* result is dispatched record by record.
C11_ListenerErrorPassthrough ==
  /\ \A n \in 1..Len(delivered) :
       delivered[n].event = "error" =>
         /\ Cardinality(EmittedFor(0, n)) = 1
         /\ \A m \in EmittedFor(0, n) :
              /\ emitted[m].event = "error"
              /\ emitted[m].payload = delivered[n].arg
  /\ \A m \in 1..Len(emitted) :
       emitted[m].by[1] = 0 =>
         /\ emitted[m].by[2] \in 1..Len(delivered)
         /\ delivered[emitted[m].by[2]].event = "error"
  /\ scanner.status = "scanning" => subscriptions = AllSubscriptions
  /\ \A n, m \in 1..Len(delivered) :
       (n < m /\ delivered[n].event = "error"
          /\ delivered[m].event = "transaction") =>
         /\ Cardinality(CallsFor(m)) = 1
         /\ \A d \in CallsFor(m) :
              /\ d.id = delivered[m].arg
              /\ (d \in detected /\ d.err = NoErr) =>
                   \A rec \in 1..Len(d.swaps) :
                     Cardinality(EmittedFor(m, rec)) = 1

\* the block listener raised an error, and a transaction the mempool
\* listener delivered after it was classified and its records notified
C11_Witness ==
  /\ Len(delivered) = 2
  /\ delivered[1].event = "error"
  /\ delivered[1].from = "block"
  /\ delivered[2].event = "transaction"
  /\ delivered[2].from = "mempool"
  /\ \E d \in detected :
       /\ d.call = 2
       /\ d.err = NoErr
       /\ Len(d.swaps) >= 2
       /\ \E k \in 1..Len(emitted) : emitted[k].by = <<2, Len(d.swaps)>>
\* the positions in the notification stream of everything emitted for call
EmittedForCall(call) ==
  {n \in 1..Len(emitted) : emitted[n].by[1] = call}

\* the event a record is notified with
EventOf(swap) == IF swap.type \in KnownTypes THEN swap.type ELSE "error"

\* C12: a failed detector call has exactly one notification, the error
\* with the detector's failure, and no claim, funding or refund; every
\* other transaction event, of either listener, in flight at the failure
\* or delivered after it, keeps its one detector call with its own id and
\* the scanner's cache and network, and once that call succeeds each of
\* its records has its one notification with that id.
C12_DetectorFailureIsolation ==
  \A d \in detected :
    d.err # NoErr =>
      /\ Cardinality(EmittedForCall(d.call)) = 1
      /\ \A n \in EmittedForCall(d.call) :
           /\ emitted[n].event = "error"
           /\ emitted[n].event \notin KnownTypes
           /\ emitted[n].payload = d.err
           /\ emitted[n].payload = DetectSwapsErr
      /\ \A m \in 1..Len(delivered) :
           (m # d.call /\ delivered[m].event = "transaction") =>
             /\ Cardinality(CallsFor(m)) = 1
             /\ \A o \in CallsFor(m) :
                  /\ o.id = delivered[m].arg
                  /\ o \in detecting =>
                       /\ o.network = scanner.network
                       /\ o.cache = scanner.cache
                       /\ EmittedForCall(m) = {}
                  /\ (o \in detected /\ o.err = NoErr) =>
                       /\ Cardinality(EmittedForCall(m)) = Len(o.swaps)
                       /\ \A rec \in 1..Len(o.swaps) :
                            /\ Cardinality(EmittedFor(m, rec)) = 1
                            /\ \A n \in EmittedFor(m, rec) :
                                 /\ emitted[n].event = EventOf(o.swaps[rec])
                                 /\ emitted[n].event # "error" =>
                                      emitted[n].payload.id = o.id

\* the detector failed the call of the second event while the call of the
\* first, made by the other listener, was in flight; the first call then
\* succeeded and its records were notified after the failure
C12_Witness ==
  \E d, o \in detected :
    /\ d.call = 2 /\ d.err # NoErr
    /\ o.call = 1 /\ o.err = NoErr /\ Len(o.swaps) >= 2
    /\ delivered[1].from # delivered[2].from
    /\ \E n \in EmittedForCall(2) : \A k \in EmittedForCall(1) : n < k
    /\ Cardinality(EmittedForCall(1)) = Len(o.swaps)
TransactionEvents ==
  {n \in 1..Len(delivered) : delivered[n].event = "transaction"}

\* C13: every transaction event has exactly one detector call, made with
\* the id of the event, and no other detector call exists; when the same
\* id was delivered twice and both calls succeeded, each record of each of
\* the two results has its own notification with that id, so that equal
\* results are notified twice with equal events and payloads.
C13_NoDeduplication ==
  /\ \A n \in TransactionEvents :
       /\ Cardinality(CallsFor(n)) = 1
       /\ \A d \in CallsFor(n) :
            /\ d.id = delivered[n].arg
            /\ d \in detecting => d.from = delivered[n].from
  /\ \A d \in detecting \cup detected : d.call \in TransactionEvents
  /\ Cardinality(detecting \cup detected) = Cardinality(TransactionEvents)
  /\ \A d1, d2 \in detected :
       (d1.call < d2.call /\ d1.id = d2.id
          /\ d1.err = NoErr /\ d2.err = NoErr) =>
         /\ \A rec \in 1..Len(d1.swaps) :
              Cardinality(EmittedFor(d1.call, rec)) = 1
         /\ \A rec \in 1..Len(d2.swaps) :
              Cardinality(EmittedFor(d2.call, rec)) = 1
         /\ d1.swaps = d2.swaps =>
              \A rec \in 1..Len(d1.swaps) :
                \A n1 \in EmittedFor(d1.call, rec),
                   n2 \in EmittedFor(d2.call, rec) :
                  /\ n1 # n2
                  /\ emitted[n1].event = emitted[n2].event
                  /\ emitted[n1].payload = emitted[n2].payload

\* the block listener and the mempool listener delivered the same id, the
\* detector gave the same two records for both, and four notifications
\* were emitted
C13_Witness ==
  /\ Len(delivered) = 2
  /\ delivered[1].event = "transaction"
  /\ delivered[2].event = "transaction"
  /\ delivered[1].arg = delivered[2].arg
  /\ delivered[1].from # delivered[2].from
  /\ \E d1, d2 \in detected :
       /\ d1.call = 1 /\ d2.call = 2
       /\ d1.err = NoErr /\ d2.err = NoErr
       /\ d1.swaps = d2.swaps
       /\ Len(d1.swaps) = 2
       /\ d1.swaps[1].type = "funding"
  /\ Len(emitted) = 4
  /\ \A n \in 1..4 : emitted[n].event = "funding"
IsSet(e) == e.op = "set"

\* C14: every cache write follows the Block Source fetch of its iteration
\* and is made under the key of that fetch, the cursor the block was
\* fetched under, with the fields of the block fetched under that key; it
\* is never made under the previous_block_hash of that block, although
\* the cursor has moved on to it while the write is in flight.
C14_CacheWriteKey ==
  \A c \in WalkCalls :
    LET w == walk[c] IN
    /\ \A i \in 1..Len(w.log) :
         IsSet(w.log[i]) =>
           /\ i > 1
           /\ IsFetch(w.log[i - 1])
           /\ w.log[i - 1].res = "ok"
           /\ w.log[i].type = "block"
           /\ w.log[i].key = w.log[i - 1].key
           /\ w.log[i].key # chain[w.log[i - 1].key].previous_block_hash
           /\ w.log[i].key # undefined
    /\ w.pc = "setCachedBlock" =>
         LET r == w.req[1]
             fetched == w.obtained[Len(w.obtained)] IN
         /\ r.op = "set"
         /\ r.key = fetched.key
         /\ r.key = w.log[Len(w.log) - 1].key
         /\ r.key # fetched.value.previous_block_hash
         /\ SameBlock(r.value, chain[r.key])
         /\ w.cursor = fetched.value.previous_block_hash

\* a write of a block with a successor is in flight: the cursor already is
\* the previous hash of the block, the key of the write is the hash the
\* block was fetched under
C14_Witness ==
  \E c \in WalkCalls :
    LET w == walk[c] IN
    /\ w.pc = "setCachedBlock"
    /\ Len(w.blocks) >= 2
    /\ w.cursor # undefined
    /\ w.cursor # w.req[1].key
    /\ w.cursor = chain[w.req[1].key].previous_block_hash
BlockFields == {"previous_block_hash", "transaction_ids"}

\* C15: every cache entry under ("block", h) holds the two fields of the
\* block the Block Source returns for h, also while calls overlap; two
\* writes in flight for the same hash carry the same value.
C15_SharedCacheCoherence ==
  /\ \A k \in DOMAIN cacheStore :
       k[1] = "block" =>
         /\ k[2] \in Hashes
         /\ DOMAIN cacheStore[k].value = BlockFields
         /\ SameBlock(cacheStore[k].value, ChainGetBlock(k[2]))
  /\ \A c1, c2 \in WalkCalls :
       (walk[c1].pc = "setCachedBlock" /\ walk[c2].pc = "setCachedBlock"
          /\ walk[c1].req[1].key = walk[c2].req[1].key) =>
         walk[c1].req[1].value = walk[c2].req[1].value

\* the cache read of walker w for hash h missed, the fetch succeeded and
\* the write was acknowledged
MissedFetchedWrote(w, h) ==
  \E i \in 1..Len(w.log) :
    /\ i + 2 <= Len(w.log)
    /\ IsGet(w.log[i]) /\ w.log[i].key = h /\ w.log[i].res = "miss"
    /\ IsFetch(w.log[i + 1]) /\ w.log[i + 1].res = "ok"
    /\ IsSet(w.log[i + 2]) /\ w.log[i + 2].key = h
    /\ w.log[i + 2].res = "ok"

\* two overlapping calls both missed on hash 2, both fetched it and both
\* wrote it; nothing has expired and the entry is in the cache
C15_Witness ==
  /\ expired = 0
  /\ MissedFetchedWrote(walk["w1"], 2)
  /\ MissedFetchedWrote(walk["w2"], 2)
  /\ HasJsonInCache("block", 2)
  /\ walk["w1"].current # walk["w2"].current
\* the step answers the cache read of call c with a value
HitStep(c) ==
  /\ walk[c].pc = "getCachedBlock"
  /\ Len(walk'[c].log) >= Len(walk[c].log)
  /\ walk'[c].log[Len(walk[c].log)].res = "hit"

\* the step sets the entry under ("block", h) and leaves every other entry
\* of the cache as it was
SetsOnly(h) ==
  /\ DOMAIN cacheStore' = (DOMAIN cacheStore) \cup {CacheKey("block", h)}
  /\ \A k \in DOMAIN cacheStore :
       k # CacheKey("block", h) => cacheStore'[k] = cacheStore[k]

\* C16: the step that answers a cache read with a value leaves the cache
\* as it is and starts no cache write in that iteration; every step that
\* changes the cache, other than an expiry in the backend, is the write of
\* a walker under type "block" and the hash of the Block Source fetch it
\* made just before, with every other entry, the ones of other types
\* included, neither deleted nor rewritten.
C16_CacheFrameOnHit ==
  [][/\ \A c \in WalkCalls :
          HitStep(c) =>
            /\ cacheStore' = cacheStore
            /\ walk'[c].pc # "setCachedBlock"
            /\ \A j \in (Len(walk[c].log) + 1)..Len(walk'[c].log) :
                 ~IsSet(walk'[c].log[j])
     /\ (cacheStore' # cacheStore /\ expired' = expired) =>
          \E c \in WalkCalls :
            LET w == walk[c] IN
            /\ w.pc = "setCachedBlock"
            /\ w.req[1].type = "block"
            /\ IsFetch(w.log[Len(w.log) - 1])
            /\ w.log[Len(w.log) - 1].res = "ok"
            /\ w.log[Len(w.log) - 1].key = w.req[1].key
            /\ SetsOnly(w.req[1].key)]_vars

\* a walk that fetched and wrote some blocks and read another from the
\* cache has finished; nothing has expired and the entry of another type
\* is in the cache as it was
C16_Witness ==
  /\ expired = 0
  /\ CacheKey("swap", 1) \in DOMAIN cacheStore
  /\ cacheStore[CacheKey("swap", 1)] = ForeignEntry
  /\ \E c \in WalkCalls :
       LET w == walk[c] IN
       /\ Succeeded(w)
       /\ \E i, j \in 1..Len(w.log) :
            /\ IsSet(w.log[i]) /\ w.log[i].res = "ok"
            /\ IsGet(w.log[j]) /\ w.log[j].res = "hit"
            /\ i < j
ClaimFields == {"id", "network", "outpoint", "preimage", "script", "type"}
RefundFields == {"id", "network", "outpoint", "script", "type"}

\* C17: the payload of every claim notification consists of id, network,
\* outpoint, preimage, script and type 'claim', and the payload of every
\* refund notification of id, network, outpoint, script and type
\* 'refund', the fields documented for the two events.
C17_DocumentedPayloads ==
  \A n \in 1..Len(emitted) :
    /\ emitted[n].event = "claim" =>
         /\ DOMAIN emitted[n].payload = ClaimFields
         /\ emitted[n].payload.type = "claim"
    /\ emitted[n].event = "refund" =>
         /\ DOMAIN emitted[n].payload = RefundFields
         /\ emitted[n].payload.type = "refund"
IsWrite(e) == e.op = "set"
Writes(w) == SelectSeq(w.log, IsWrite)
Running(w) == w.pc \in {"getCachedBlock", "getBlock", "setCachedBlock"}

\* a call has completed at most once, a finished call exactly once, with a
\* block sequence or with a failure, and has issued at most
\* fetchBlocksCount cache reads, fetches and cache writes
CompletesOnceWithinPage(w) ==
  /\ Len(w.returned) <= 1
  /\ w.pc = "done" <=> Len(w.returned) = 1
  /\ w.pc = "done" =>
       \/ /\ w.returned[1].err = NoErr
          /\ w.returned[1].res = {[blocks |-> w.blocks]}
          /\ Len(w.blocks) <= fetchBlocksCount
       \/ /\ w.returned[1].err # NoErr
          /\ w.returned[1].res = {}
  /\ Len(Gets(w)) <= fetchBlocksCount
  /\ Len(Fetches(w)) <= fetchBlocksCount
  /\ Len(Writes(w)) <= fetchBlocksCount
  /\ Len(w.blocks) <= Len(Gets(w))

\* C18: when every cache and Block Source operation eventually responds,
\* every call that is under way eventually completes; it completes once,
\* with a block sequence or a failure, after at most 10 cache reads, 10
\* Block Source fetches and 10 cache writes, on the chain with a cycle of
\* previous-hash links and with cached entries that point back to visited
\* hashes as well.
C18_WalkerTermination ==
  /\ [](\A c \in WalkCalls : CompletesOnceWithinPage(walk[c]))
  /\ \A c \in WalkCalls : Running(walk[c]) ~> (walk[c].pc = "done")

\* on the chain whose links form a cycle a walk has completed with a full
\* page, part of it read from cached entries that point back to hashes the
\* walk had visited
C18_Witness ==
  /\ chain = CyclicChain
  /\ \E c \in WalkCalls :
       LET w == walk[c] IN
       /\ Succeeded(w)
       /\ Len(ResultOf(w)) = fetchBlocksCount
       /\ Len(Gets(w)) = fetchBlocksCount
       /\ \E i, j \in 1..Len(w.log) :
            /\ i < j
            /\ IsWrite(w.log[i]) /\ w.log[i].res = "ok"
            /\ IsGet(w.log[j]) /\ w.log[j].res = "hit"
            /\ w.log[j].key = w.log[i].key
\* C19: the notifications of one detector result stand in the stream in
\* the order of the records of the result, and nothing stands between
\* them: no notification of another detector call and no forwarded
\* listener error.
C19_EmissionOrder ==
  \A d \in detected :
    \A n1, n2 \in EmittedForCall(d.call) :
      n1 < n2 =>
        /\ emitted[n1].by[2] < emitted[n2].by[2]
        /\ \A k \in n1..n2 :
             /\ emitted[k].by[1] = d.call
             /\ emitted[k].by[1] # 0

\* two detector calls were in flight together; the result of the later
\* call, of three records, was notified first, then the result of the
\* earlier call, of two records
C19_Witness ==
  \E d1, d2 \in detected :
    /\ d1.call = 1 /\ d2.call = 2
    /\ Len(d1.swaps) = 2 /\ Len(d2.swaps) = 3
    /\ Cardinality(EmittedForCall(1)) = 2
    /\ Cardinality(EmittedForCall(2)) = 3
    /\ \A n \in EmittedForCall(2) : \A k \in EmittedForCall(1) : n < k
====
